---- MODULE Spec2Model ----
(***************************************************************************)
(* Model of CarlaServer (Source/Carla/Game/CarlaServer.cpp): the session   *)
(* protocol engine that wraps the carla_server transport handle.           *)
(*                                                                         *)
(* 32-bit quantities are kept as bit patterns <<hi, lo>> of two 16-bit     *)
(* halves together with their signedness, so that the uint32 -> int32      *)
(* conversion done by GetTimeOut keeps its width.                          *)
(***************************************************************************)
EXTENDS Integers, Sequences, FiniteSets, TLC

\* ---------------------------------------------------------------------------
\* Bounds of the model
\* ---------------------------------------------------------------------------
MaxCode == 2
MaxSpots == 3
MaxIndex == 3
MaxActors == 2
MaxImages == 2

\* ---------------------------------------------------------------------------
\* 32-bit values
\* ---------------------------------------------------------------------------
Half == 2 ^ 16
SignBit == 2 ^ 15

\* uint32 value hi * 2^16 + lo
U32(hi, lo) == [signed |-> FALSE, bits |-> <<hi, lo>>]

\* conversion uint32 -> int32: the bit pattern is kept, the value is read
\* as two's complement
ToInt32(u) == [signed |-> TRUE, bits |-> u.bits]

\* the value is below zero
IsNegative(v) == v.signed /\ v.bits[1] >= SignBit

\* the value is zero
IsZero(v) == v.bits = <<0, 0>>

\* the two 32-bit quantities denote the same integer
SameValue(a, b) ==
  /\ a.bits = b.bits
  /\ IsNegative(a) = IsNegative(b)
  /\ (a.signed # b.signed) => a.bits[1] < SignBit

\* ---------------------------------------------------------------------------
\* Transport outcome codes and the engine's three-valued result
\* ---------------------------------------------------------------------------
CARLA_SERVER_SUCCESS == 0
CARLA_SERVER_TRY_AGAIN == 1

Codes == 0 .. MaxCode

Success == "Success"
TryAgain == "TryAgain"
Error == "Error"
NoReturn == "NoReturn"

\* variant: the try-again code is not told apart from a failure
ParseErrorCode_TryAgainIsError(ErrorCode) ==
  IF ErrorCode = CARLA_SERVER_SUCCESS THEN Success
  ELSE Error

ParseErrorCode(ErrorCode) ==
  IF ErrorCode = CARLA_SERVER_SUCCESS THEN Success
  ELSE IF ErrorCode = CARLA_SERVER_TRY_AGAIN THEN TryAgain
  ELSE Error

\* variant: the blocking flag is ignored
GetTimeOut_IgnoresBlocking(TimeOut_, bBlocking) ==
  ToInt32(TimeOut_)

GetTimeOut(TimeOut_, bBlocking) ==
  ToInt32(IF bBlocking THEN TimeOut_ ELSE U32(0, 0))

\* ---------------------------------------------------------------------------
\* Set functions: simulation values -> wire records
\* ---------------------------------------------------------------------------
\* FTransform: location, yaw and roll (degrees, multiples of 90)
FTransform(loc, yaw, roll) == [loc |-> loc, yaw |-> yaw, roll |-> roll]

\* FRotator::GetForwardVector for a rotation about the vertical axis; the
\* roll does not enter
GetForwardVector(t) ==
  CASE t.yaw = 0 -> <<1, 0, 0>>
    [] t.yaw = 90 -> <<0, 1, 0>>
    [] t.yaw = 180 -> <<-1, 0, 0>>
    [] OTHER -> <<0, -1, 0>>

SetVector3d(rhs) == [x |-> rhs[1], y |-> rhs[2], z |-> rhs[3]]

SetTransform(rhs) ==
  [location |-> SetVector3d(rhs.loc),
   orientation |-> SetVector3d(GetForwardVector(rhs))]

\* PostProcessEffect::ToUInt
ToUInt(effect) ==
  CASE effect = "None" -> 0
    [] effect = "SceneFinal" -> 1
    [] effect = "Depth" -> 2
    [] OTHER -> 3

\* a carla_image as MakeUnique<carla_image[]> value-initialises it
ZeroImage == [width |-> 0, height |-> 0, type |-> 0, data |-> 0]

\* variant: the sizes of an image without pixels are copied all the same
SetImage_CopiesSizes(cImage, uImage) ==
  IF uImage.BitMapNum > 0
    THEN [width |-> uImage.SizeX, height |-> uImage.SizeY,
          type |-> ToUInt(uImage.PostProcessEffect), data |-> uImage.BitMapData]
    ELSE [cImage EXCEPT !.width = uImage.SizeX, !.height = uImage.SizeY]

\* Set(carla_image &, const FCapturedImage &); data is the address of the
\* first pixel, 0 the null pointer
SetImage(cImage, uImage) ==
  IF uImage.BitMapNum > 0
    THEN [width |-> uImage.SizeX, height |-> uImage.SizeY,
          type |-> ToUInt(uImage.PostProcessEffect), data |-> uImage.BitMapData]
    ELSE cImage

\* ---------------------------------------------------------------------------
\* Simulation-side collaborators
\* ---------------------------------------------------------------------------
\* Actors are referred to by small numbers, 0 is nullptr.  Walkers are
\* 1 .. 3, vehicles are 4 .. 6.
nullptr == 0
WalkerRefs == {1, 2, 3}
VehicleRefs == {4, 5, 6}

ActorAddress(Actor) == 4096 + 48 * Actor

GetActorTransform(Actor) ==
  FTransform(<<10 * Actor, Actor % 2, 0>>, 90 * (Actor % 4), 90 * (Actor % 2))

\* Walker->GetVelocity()
GetVelocity(Actor) == <<Actor, 2, 0>>

\* ACarlaWheeledVehicle accessors
GetVehicleForwardSpeed(Actor) == 3 * Actor
GetVehicleBoundsExtent(Actor) == <<200 + Actor, 90, 70>>

DotProduct(a, b) == a[1] * b[1] + a[2] * b[2] + a[3] * b[3]

\* GetTypeHash of a pointer: the low four bits of the address are dropped
GetTypeHash(Actor) == ActorAddress(Actor) \div 16

CARLA_SERVER_AGENT_VEHICLE == 10
CARLA_SERVER_AGENT_PEDESTRIAN == 20

\* forward_speed is kept in thousandths of the wire unit
SetBoxAndSpeedWalker(values, Walker) ==
  [values EXCEPT
     !.forward_speed =
        DotProduct(GetVelocity(Walker), GetForwardVector(GetActorTransform(Walker))) * 36,
     !.box_extent = [x |-> 45, y |-> 35, z |-> 100]]

SetBoxAndSpeedVehicle(values, Vehicle_) ==
  [values EXCEPT
     !.forward_speed = GetVehicleForwardSpeed(Vehicle_) * 1000,
     !.box_extent = SetVector3d(GetVehicleBoundsExtent(Vehicle_))]

SetBoxAndSpeed(values, Actor) ==
  IF Actor \in WalkerRefs THEN SetBoxAndSpeedWalker(values, Actor)
  ELSE SetBoxAndSpeedVehicle(values, Actor)

EmptyAgent ==
  [id |-> 0, type |-> 0, transform |-> SetTransform(FTransform(<<0, 0, 0>>, 0, 0)),
   forward_speed |-> 0, box_extent |-> [x |-> 0, y |-> 0, z |-> 0]]

\* the body of the loop of AddAgents for one non-null actor
MakeAgent(Actor, type) ==
  SetBoxAndSpeed(
    [EmptyAgent EXCEPT !.id = GetTypeHash(Actor),
                       !.type = type,
                       !.transform = SetTransform(GetActorTransform(Actor))],
    Actor)

RECURSIVE AddAgents(_, _, _)
AddAgents(Agents, Actors, type) ==
  IF Actors = <<>> THEN Agents
  ELSE AddAgents(
         IF Head(Actors) # nullptr
           THEN Append(Agents, MakeAgent(Head(Actors), type))
           ELSE Agents,
         Tail(Actors), type)

\* GameState: the two spawners, each possibly absent
NoWalkerSpawner == [present |-> FALSE, WhiteList |-> <<>>, BlackList |-> <<>>]
NoVehicleSpawner == [present |-> FALSE, Vehicles |-> <<>>]
WalkerSpawner(white, black) == [present |-> TRUE, WhiteList |-> white, BlackList |-> black]
VehicleSpawner(vehicles) == [present |-> TRUE, Vehicles |-> vehicles]

\* variant: the black list is enumerated before the white list
GetAgentInfo_BlackListFirst(GameState, Agents) ==
  LET AfterWhite ==
        IF GameState.WalkerSpawner.present
          THEN AddAgents(Agents, GameState.WalkerSpawner.BlackList,
                         CARLA_SERVER_AGENT_PEDESTRIAN)
          ELSE Agents
      AfterBlack ==
        IF GameState.WalkerSpawner.present
          THEN AddAgents(AfterWhite, GameState.WalkerSpawner.WhiteList,
                         CARLA_SERVER_AGENT_PEDESTRIAN)
          ELSE AfterWhite
  IN IF GameState.VehicleSpawner.present
       THEN AddAgents(AfterBlack, GameState.VehicleSpawner.Vehicles,
                      CARLA_SERVER_AGENT_VEHICLE)
       ELSE AfterBlack

GetAgentInfo(GameState, Agents) ==
  LET AfterWhite ==
        IF GameState.WalkerSpawner.present
          THEN AddAgents(Agents, GameState.WalkerSpawner.WhiteList,
                         CARLA_SERVER_AGENT_PEDESTRIAN)
          ELSE Agents
      AfterBlack ==
        IF GameState.WalkerSpawner.present
          THEN AddAgents(AfterWhite, GameState.WalkerSpawner.BlackList,
                         CARLA_SERVER_AGENT_PEDESTRIAN)
          ELSE AfterWhite
  IN IF GameState.VehicleSpawner.present
       THEN AddAgents(AfterBlack, GameState.VehicleSpawner.Vehicles,
                      CARLA_SERVER_AGENT_VEHICLE)
       ELSE AfterBlack

\* ---------------------------------------------------------------------------
\* State
\* ---------------------------------------------------------------------------
VARIABLES
  Server,              \* the transport handle: "live" or "freed"
  WorldPort,           \* CarlaServer::WorldPort
  TimeOut,             \* CarlaServer::TimeOut, uint32 milliseconds
  Player,              \* the ACarlaVehicleController handed to ReadControl
  Vehicle,             \* the inputs of the vehicle the controller possesses
  Settings,            \* the UCarlaSettings handed to ReadNewEpisode
  StartPositionIndex,  \* the caller's variable handed to ReadEpisodeStart
  last,                \* the latest invocation: its transport calls and result
  fault,               \* "none", or how the process was brought down
  bExtraLog,           \* the build defines CARLA_SERVER_EXTRA_LOG
  enqueued,            \* the transport holds client data: "yes", "no", "unknown"
  sceneN               \* spawn transforms of the latest successful scene write

vars == <<Server, WorldPort, TimeOut, Player, Vehicle, Settings,
          StartPositionIndex, last, fault, bExtraLog, enqueued, sceneN>>

NoScene == 0 - 1

\* session timeouts the engine is constructed with: 0, 1000, 2^31
TimeOuts == {U32(0, 0), U32(0, 1000), U32(SignBit, 0)}

\* carla_control as the transport fills it; floats in tenths
Controls ==
  { [autopilot |-> TRUE, steer |-> 5, throttle |-> 10, brake |-> 0,
     hand_brake |-> TRUE, reverse |-> TRUE],
    [autopilot |-> FALSE, steer |-> 0 - 5, throttle |-> 10, brake |-> 0,
     hand_brake |-> FALSE, reverse |-> FALSE],
    [autopilot |-> FALSE, steer |-> 0, throttle |-> 0, brake |-> 10,
     hand_brake |-> TRUE, reverse |-> TRUE] }

NoControl ==
  [autopilot |-> FALSE, steer |-> 0, throttle |-> 0, brake |-> 0,
   hand_brake |-> FALSE, reverse |-> FALSE]

InitialVehicle ==
  [SteeringInput |-> 0, ThrottleInput |-> 0, BrakeInput |-> 0,
   HandbrakeInput |-> FALSE, Reverse |-> FALSE]

\* carla_request_new_episode as the transport fills it
IniRequests ==
  { [ini_file |-> <<"[", "]", "x">>, ini_file_length |-> 2] }

\* FString(length, chars)
FString(length, chars) == SubSeq(chars, 1, length)

\* the i-th player start of the map
SpotTransform(i) ==
  FTransform(<<IF i % 3 = 2 THEN 10 ELSE 0, IF i % 3 = 0 THEN 10 ELSE 0, 0>>,
             90 * ((i - 1) % 4), 90 * (i % 2))

StartSpots(n) == [i \in 1 .. n |-> SpotTransform(i)]

\* captured images of the player's cameras
CapturedImages ==
  { [SizeX |-> 2, SizeY |-> 1, PostProcessEffect |-> "SceneFinal",
     BitMapNum |-> 2, BitMapData |-> 512],
    [SizeX |-> 1, SizeY |-> 3, PostProcessEffect |-> "Depth",
     BitMapNum |-> 3, BitMapData |-> 768],
    [SizeX |-> 2, SizeY |-> 2, PostProcessEffect |-> "SemanticSegmentation",
     BitMapNum |-> 0, BitMapData |-> 0] }

SeqsUpTo(S, n) == UNION {[1 .. k -> S] : k \in 0 .. n}

\* ACarlaPlayerState at a tick
PlayerStateAt(t, Images) ==
  [PlatformTimeStamp |-> 1000 + t, GameTimeStamp |-> t,
   Transform |-> FTransform(<<t, 2 * t, 0>>, 90 * (t % 4), 0),
   Acceleration |-> <<t, 0, 0>>, ForwardSpeed |-> 3 * t,
   CollisionIntensityCars |-> t, CollisionIntensityPedestrians |-> 0,
   CollisionIntensityOther |-> 2 * t,
   OtherLaneIntersectionFactor |-> t % 2, OffRoadIntersectionFactor |-> 0,
   Images |-> Images]

NoMeasurements ==
  [platform_timestamp |-> 0, game_timestamp |-> 0,
   player_measurements |-> <<>>,
   non_player_agents |-> <<>>, non_player_agents_null |-> TRUE,
   number_of_non_player_agents |-> 0,
   images |-> <<>>, images_null |-> TRUE, NumberOfImages |-> 0]

\* the record of an invocation before anything happened in it
NoCall ==
  [op |-> "none", hasFlag |-> FALSE, bBlocking |-> FALSE, calls |-> <<>>,
   code |-> 0, result |-> NoReturn,
   ini |-> <<>>, scene |-> <<>>, number_of_player_start_spots |-> 0,
   index |-> 0, ready |-> FALSE, control |-> NoControl,
   bSendNonPlayerAgentsInfo |-> FALSE,
   AvailableStartSpots |-> <<>>,
   GameState |-> [WalkerSpawner |-> NoWalkerSpawner,
                  VehicleSpawner |-> NoVehicleSpawner],
   PlayerState |-> PlayerStateAt(0, <<>>),
   imageLog |-> <<>>,
   meas |-> NoMeasurements]

\* one call into the transport with a wait argument
TimedCall(fn, wait) == [fn |-> fn, hasWait |-> TRUE, wait |-> wait]

\* one call into the transport that takes no wait argument
UntimedCall(fn) == [fn |-> fn, hasWait |-> FALSE, wait |-> U32(0, 0)]

\* the codes a read of the transport may return, given whether client data
\* is waiting and the wait: data already there is returned, no data and a
\* wait of zero is try-again at once, no data and a wait may end either way
TransportRead(dataEnqueued, wait) ==
  CASE dataEnqueued = "yes" -> {CARLA_SERVER_SUCCESS}
    [] dataEnqueued = "no" /\ IsZero(wait) -> {CARLA_SERVER_TRY_AGAIN}
    [] dataEnqueued = "no" /\ ~IsZero(wait) -> Codes
    [] OTHER -> Codes

\* a read that succeeds takes the waiting data out of the transport
AfterRead(dataEnqueued, code) ==
  IF dataEnqueued = "yes" /\ code = CARLA_SERVER_SUCCESS THEN "no" ELSE dataEnqueued

\* the object exists and the process runs
Callable == Server = "live" /\ fault = "none"

InitEngine ==
  /\ Server = "live"
  /\ WorldPort = 2000
  /\ TimeOut \in TimeOuts
  /\ Player \in [bAutopilot : {FALSE}, possessing : BOOLEAN]
  /\ Vehicle = InitialVehicle
  /\ Settings = <<"d">>
  /\ StartPositionIndex = 0
  /\ last = NoCall
  /\ fault = "none"
  /\ sceneN = NoScene

\* a build without CARLA_SERVER_EXTRA_LOG, nothing assumed about the transport
Init ==
  /\ InitEngine
  /\ bExtraLog = FALSE
  /\ enqueued = "unknown"

\* ---------------------------------------------------------------------------
\* Operations
\* ---------------------------------------------------------------------------
\* CarlaServer::Connect(); code is what carla_server_connect returns
Connect(code) ==
  /\ Callable
  /\ last' = [NoCall EXCEPT
       !.op = "Connect",
       !.calls = <<TimedCall("carla_server_connect", TimeOut)>>,
       !.code = code,
       !.result = ParseErrorCode(code)]
  /\ UNCHANGED <<bExtraLog, enqueued, Server, WorldPort, TimeOut, Player, Vehicle, Settings,
                 StartPositionIndex, fault, sceneN>>

\* variant: the settings are loaded from the structure whatever the read reported
ReadNewEpisode_LoadsAlways(bBlocking, code, values) ==
  LET ec == ParseErrorCode(code)
      IniFile == FString(values.ini_file_length, values.ini_file)
  IN /\ Callable
     /\ last' = [NoCall EXCEPT
          !.op = "ReadNewEpisode", !.hasFlag = TRUE, !.bBlocking = bBlocking,
          !.calls = <<TimedCall("carla_read_request_new_episode",
                                GetTimeOut(TimeOut, bBlocking))>>,
          !.code = code, !.result = ec,
          !.ini = IF ec = Success THEN IniFile ELSE <<>>]
     /\ Settings' = IniFile
     /\ enqueued' = AfterRead(enqueued, code)
     /\ UNCHANGED <<bExtraLog, Server, WorldPort, TimeOut, Player, Vehicle,
                    StartPositionIndex, fault, sceneN>>

\* CarlaServer::ReadNewEpisode(Settings, bBlocking); values is what the
\* transport leaves in the request structure
ReadNewEpisode(bBlocking, code, values) ==
  LET ec == ParseErrorCode(code)
      IniFile == FString(values.ini_file_length, values.ini_file)
  IN /\ Callable
     /\ last' = [NoCall EXCEPT
          !.op = "ReadNewEpisode", !.hasFlag = TRUE, !.bBlocking = bBlocking,
          !.calls = <<TimedCall("carla_read_request_new_episode",
                                GetTimeOut(TimeOut, bBlocking))>>,
          !.code = code, !.result = ec,
          !.ini = IF ec = Success THEN IniFile ELSE <<>>]
     /\ Settings' = IF ec = Success THEN IniFile ELSE Settings
     /\ enqueued' = AfterRead(enqueued, code)
     /\ UNCHANGED <<bExtraLog, Server, WorldPort, TimeOut, Player, Vehicle,
                    StartPositionIndex, fault, sceneN>>

\* variant: the spawn transforms are written from the last start spot to the first
SendSceneDescription_Reversed(AvailableStartSpots, bBlocking, code) ==
  LET NumberOfStartSpots == Len(AvailableStartSpots)
      StartSpots_ == [i \in 1 .. NumberOfStartSpots |->
                        SetTransform(AvailableStartSpots[NumberOfStartSpots + 1 - i])]
      ec == ParseErrorCode(code)
  IN /\ Callable
     /\ last' = [NoCall EXCEPT
          !.op = "SendSceneDescription", !.hasFlag = TRUE, !.bBlocking = bBlocking,
          !.calls = <<TimedCall("carla_write_scene_description",
                                GetTimeOut(TimeOut, bBlocking))>>,
          !.code = code, !.result = ec,
          !.AvailableStartSpots = AvailableStartSpots,
          !.scene = StartSpots_,
          !.number_of_player_start_spots = NumberOfStartSpots]
     /\ sceneN' = IF ec = Success THEN NumberOfStartSpots ELSE sceneN
     /\ UNCHANGED <<bExtraLog, enqueued, Server, WorldPort, TimeOut, Player, Vehicle, Settings,
                    StartPositionIndex, fault>>

\* CarlaServer::SendSceneDescription(AvailableStartSpots, bBlocking)
SendSceneDescription(AvailableStartSpots, bBlocking, code) ==
  LET NumberOfStartSpots == Len(AvailableStartSpots)
      StartSpots_ == [i \in 1 .. NumberOfStartSpots |->
                        SetTransform(AvailableStartSpots[i])]
      ec == ParseErrorCode(code)
  IN /\ Callable
     /\ last' = [NoCall EXCEPT
          !.op = "SendSceneDescription", !.hasFlag = TRUE, !.bBlocking = bBlocking,
          !.calls = <<TimedCall("carla_write_scene_description",
                                GetTimeOut(TimeOut, bBlocking))>>,
          !.code = code, !.result = ec,
          !.AvailableStartSpots = AvailableStartSpots,
          !.scene = StartSpots_,
          !.number_of_player_start_spots = NumberOfStartSpots]
     /\ sceneN' = IF ec = Success THEN NumberOfStartSpots ELSE sceneN
     /\ UNCHANGED <<bExtraLog, enqueued, Server, WorldPort, TimeOut, Player, Vehicle, Settings,
                    StartPositionIndex, fault>>

\* variant: the start index is copied out whatever the read reported
ReadEpisodeStart_AlwaysYields(bBlocking, code, values) ==
  LET ec == ParseErrorCode(code)
  IN /\ Callable
     /\ last' = [NoCall EXCEPT
          !.op = "ReadEpisodeStart", !.hasFlag = TRUE, !.bBlocking = bBlocking,
          !.calls = <<TimedCall("carla_read_episode_start",
                                GetTimeOut(TimeOut, bBlocking))>>,
          !.code = code, !.result = ec,
          !.index = IF ec = Success THEN values ELSE 0]
     /\ StartPositionIndex' = values
     /\ enqueued' = AfterRead(enqueued, code)
     /\ UNCHANGED <<bExtraLog, Server, WorldPort, TimeOut, Player, Vehicle, Settings,
                    fault, sceneN>>

\* variant: a reply beyond the spawn transforms sent is replaced by 0
ReadEpisodeStart_Clamped(bBlocking, code, values) ==
  LET ec == ParseErrorCode(code)
  IN /\ Callable
     /\ last' = [NoCall EXCEPT
          !.op = "ReadEpisodeStart", !.hasFlag = TRUE, !.bBlocking = bBlocking,
          !.calls = <<TimedCall("carla_read_episode_start",
                                GetTimeOut(TimeOut, bBlocking))>>,
          !.code = code, !.result = ec,
          !.index = IF ec = Success THEN values ELSE 0]
     /\ StartPositionIndex' = IF ec = Success
                                THEN (IF values < sceneN THEN values ELSE 0)
                                ELSE StartPositionIndex
     /\ enqueued' = AfterRead(enqueued, code)
     /\ UNCHANGED <<bExtraLog, Server, WorldPort, TimeOut, Player, Vehicle, Settings,
                    fault, sceneN>>

\* variant: a reply that is no index into the spawn transforms sent is
\* refused with Error
ReadEpisodeStart_RangeChecked(bBlocking, code, values) ==
  LET ec == IF ParseErrorCode(code) = Success /\ sceneN # NoScene /\ values >= sceneN
              THEN Error
              ELSE ParseErrorCode(code)
  IN /\ Callable
     /\ last' = [NoCall EXCEPT
          !.op = "ReadEpisodeStart", !.hasFlag = TRUE, !.bBlocking = bBlocking,
          !.calls = <<TimedCall("carla_read_episode_start",
                                GetTimeOut(TimeOut, bBlocking))>>,
          !.code = code, !.result = ec,
          !.index = IF ParseErrorCode(code) = Success THEN values ELSE 0]
     /\ StartPositionIndex' = IF ec = Success THEN values ELSE StartPositionIndex
     /\ enqueued' = AfterRead(enqueued, code)
     /\ UNCHANGED <<bExtraLog, Server, WorldPort, TimeOut, Player, Vehicle, Settings,
                    fault, sceneN>>

\* CarlaServer::ReadEpisodeStart(StartPositionIndex, bBlocking); values is
\* the player_start_spot_index the transport leaves in the structure
ReadEpisodeStart(bBlocking, code, values) ==
  LET ec == ParseErrorCode(code)
  IN /\ Callable
     /\ last' = [NoCall EXCEPT
          !.op = "ReadEpisodeStart", !.hasFlag = TRUE, !.bBlocking = bBlocking,
          !.calls = <<TimedCall("carla_read_episode_start",
                                GetTimeOut(TimeOut, bBlocking))>>,
          !.code = code, !.result = ec,
          !.index = IF ec = Success THEN values ELSE 0]
     /\ StartPositionIndex' = IF ec = Success THEN values ELSE StartPositionIndex
     /\ enqueued' = AfterRead(enqueued, code)
     /\ UNCHANGED <<bExtraLog, Server, WorldPort, TimeOut, Player, Vehicle, Settings,
                    fault, sceneN>>

\* variant: the ready flag follows the blocking flag
SendEpisodeReady_ReadyIfBlocking(bBlocking, code) ==
  LET ec == ParseErrorCode(code)
  IN /\ Callable
     /\ last' = [NoCall EXCEPT
          !.op = "SendEpisodeReady", !.hasFlag = TRUE, !.bBlocking = bBlocking,
          !.calls = <<TimedCall("carla_write_episode_ready",
                                GetTimeOut(TimeOut, bBlocking))>>,
          !.code = code, !.result = ec,
          !.ready = bBlocking]
     /\ UNCHANGED <<bExtraLog, enqueued, Server, WorldPort, TimeOut, Player, Vehicle, Settings,
                    StartPositionIndex, fault, sceneN>>

\* CarlaServer::SendEpisodeReady(bBlocking)
SendEpisodeReady(bBlocking, code) ==
  LET ec == ParseErrorCode(code)
  IN /\ Callable
     /\ last' = [NoCall EXCEPT
          !.op = "SendEpisodeReady", !.hasFlag = TRUE, !.bBlocking = bBlocking,
          !.calls = <<TimedCall("carla_write_episode_ready",
                                GetTimeOut(TimeOut, bBlocking))>>,
          !.code = code, !.result = ec,
          !.ready = TRUE]
     /\ UNCHANGED <<bExtraLog, enqueued, Server, WorldPort, TimeOut, Player, Vehicle, Settings,
                    StartPositionIndex, fault, sceneN>>

\* how the process ends when a manual command meets a controller without a
\* vehicle: check() fires where checks are compiled in, the null vehicle
\* pointer is dereferenced where they are not
FaultKinds == {"check", "nullptr"}

\* variant: SetReverse is left out
ApplyInputs_WithoutReverse(values) ==
  [SteeringInput |-> values.steer, ThrottleInput |-> values.throttle,
   BrakeInput |-> values.brake, HandbrakeInput |-> values.hand_brake,
   Reverse |-> Vehicle.Reverse]

\* the five setters called on the possessed vehicle
ApplyInputs(values) ==
  [SteeringInput |-> values.steer, ThrottleInput |-> values.throttle,
   BrakeInput |-> values.brake, HandbrakeInput |-> values.hand_brake,
   Reverse |-> values.reverse]

\* variant: a read that brings no command clears the controller
ReadControl_ResetsOnTryAgain(bBlocking, code, values) ==
  LET ec == ParseErrorCode(code)
      call == [NoCall EXCEPT
                 !.op = "ReadControl", !.hasFlag = TRUE, !.bBlocking = bBlocking,
                 !.calls = <<TimedCall("carla_read_control",
                                       GetTimeOut(TimeOut, bBlocking))>>,
                 !.code = code, !.result = ec,
                 !.control = IF ec = Success THEN values ELSE NoControl]
  IN /\ Callable
     /\ IF ec = Success
          THEN /\ Player' = [Player EXCEPT !.bAutopilot = values.autopilot]
               /\ IF ~values.autopilot
                    THEN IF ~Player.possessing
                           THEN /\ fault' \in FaultKinds
                                /\ last' = [call EXCEPT !.result = NoReturn]
                                /\ UNCHANGED Vehicle
                           ELSE /\ Vehicle' = ApplyInputs(values)
                                /\ last' = call
                                /\ UNCHANGED fault
                    ELSE /\ last' = call
                         /\ UNCHANGED <<Vehicle, fault>>
          ELSE /\ last' = call
               /\ Player' = [Player EXCEPT !.bAutopilot = FALSE]
               /\ Vehicle' = IF Player.possessing THEN InitialVehicle ELSE Vehicle
               /\ UNCHANGED fault
     /\ enqueued' = AfterRead(enqueued, code)
     /\ UNCHANGED <<bExtraLog, Server, WorldPort, TimeOut, Settings, StartPositionIndex, sceneN>>

\* variant: the manual inputs are applied under autopilot as well
ReadControl_AppliesUnderAutopilot(bBlocking, code, values) ==
  LET ec == ParseErrorCode(code)
      call == [NoCall EXCEPT
                 !.op = "ReadControl", !.hasFlag = TRUE, !.bBlocking = bBlocking,
                 !.calls = <<TimedCall("carla_read_control",
                                       GetTimeOut(TimeOut, bBlocking))>>,
                 !.code = code, !.result = ec,
                 !.control = IF ec = Success THEN values ELSE NoControl]
  IN /\ Callable
     /\ IF ec = Success
          THEN /\ Player' = [Player EXCEPT !.bAutopilot = values.autopilot]
               /\ IF TRUE
                    THEN IF ~Player.possessing
                           THEN /\ fault' \in FaultKinds
                                /\ last' = [call EXCEPT !.result = NoReturn]
                                /\ UNCHANGED Vehicle
                           ELSE /\ Vehicle' = ApplyInputs(values)
                                /\ last' = call
                                /\ UNCHANGED fault
                    ELSE /\ last' = call
                         /\ UNCHANGED <<Vehicle, fault>>
          ELSE /\ last' = call
               /\ UNCHANGED <<Player, Vehicle, fault>>
     /\ enqueued' = AfterRead(enqueued, code)
     /\ UNCHANGED <<bExtraLog, Server, WorldPort, TimeOut, Settings, StartPositionIndex, sceneN>>

\* variant: a read that reports try-again is issued a second time
ReadControl_Retries(bBlocking, code, values) ==
  LET ec == ParseErrorCode(code)
      call == [NoCall EXCEPT
                 !.op = "ReadControl", !.hasFlag = TRUE, !.bBlocking = bBlocking,
                 !.calls = IF ec = TryAgain
                             THEN <<TimedCall("carla_read_control",
                                              GetTimeOut(TimeOut, bBlocking)),
                                    TimedCall("carla_read_control",
                                              GetTimeOut(TimeOut, bBlocking))>>
                             ELSE <<TimedCall("carla_read_control",
                                              GetTimeOut(TimeOut, bBlocking))>>,
                 !.code = code, !.result = ec,
                 !.control = IF ec = Success THEN values ELSE NoControl]
  IN /\ Callable
     /\ IF ec = Success
          THEN /\ Player' = [Player EXCEPT !.bAutopilot = values.autopilot]
               /\ IF ~values.autopilot
                    THEN IF ~Player.possessing
                           THEN /\ fault' \in FaultKinds
                                /\ last' = [call EXCEPT !.result = NoReturn]
                                /\ UNCHANGED Vehicle
                           ELSE /\ Vehicle' = ApplyInputs(values)
                                /\ last' = call
                                /\ UNCHANGED fault
                    ELSE /\ last' = call
                         /\ UNCHANGED <<Vehicle, fault>>
          ELSE /\ last' = call
               /\ UNCHANGED <<Player, Vehicle, fault>>
     /\ enqueued' = AfterRead(enqueued, code)
     /\ UNCHANGED <<bExtraLog, Server, WorldPort, TimeOut, Settings, StartPositionIndex, sceneN>>

\* variant: possession is checked before the autopilot flag is set
ReadControl_ChecksFirst(bBlocking, code, values) ==
  LET ec == ParseErrorCode(code)
      call == [NoCall EXCEPT
                 !.op = "ReadControl", !.hasFlag = TRUE, !.bBlocking = bBlocking,
                 !.calls = <<TimedCall("carla_read_control",
                                       GetTimeOut(TimeOut, bBlocking))>>,
                 !.code = code, !.result = ec,
                 !.control = IF ec = Success THEN values ELSE NoControl]
  IN /\ Callable
     /\ IF ec = Success
          THEN /\ Player' = IF ~values.autopilot /\ ~Player.possessing
                            THEN Player
                            ELSE [Player EXCEPT !.bAutopilot = values.autopilot]
               /\ IF ~values.autopilot
                    THEN IF ~Player.possessing
                           THEN /\ fault' \in FaultKinds
                                /\ last' = [call EXCEPT !.result = NoReturn]
                                /\ UNCHANGED Vehicle
                           ELSE /\ Vehicle' = ApplyInputs(values)
                                /\ last' = call
                                /\ UNCHANGED fault
                    ELSE /\ last' = call
                         /\ UNCHANGED <<Vehicle, fault>>
          ELSE /\ last' = call
               /\ UNCHANGED <<Player, Vehicle, fault>>
     /\ enqueued' = AfterRead(enqueued, code)
     /\ UNCHANGED <<bExtraLog, Server, WorldPort, TimeOut, Settings, StartPositionIndex, sceneN>>

\* CarlaServer::ReadControl(Player, bBlocking); values is the carla_control
\* the transport leaves in the structure
ReadControl(bBlocking, code, values) ==
  LET ec == ParseErrorCode(code)
      call == [NoCall EXCEPT
                 !.op = "ReadControl", !.hasFlag = TRUE, !.bBlocking = bBlocking,
                 !.calls = <<TimedCall("carla_read_control",
                                       GetTimeOut(TimeOut, bBlocking))>>,
                 !.code = code, !.result = ec,
                 !.control = IF ec = Success THEN values ELSE NoControl]
  IN /\ Callable
     /\ IF ec = Success
          THEN /\ Player' = [Player EXCEPT !.bAutopilot = values.autopilot]
               /\ IF ~values.autopilot
                    THEN IF ~Player.possessing
                           THEN /\ fault' \in FaultKinds
                                /\ last' = [call EXCEPT !.result = NoReturn]
                                /\ UNCHANGED Vehicle
                           ELSE /\ Vehicle' = ApplyInputs(values)
                                /\ last' = call
                                /\ UNCHANGED fault
                    ELSE /\ last' = call
                         /\ UNCHANGED <<Vehicle, fault>>
          ELSE /\ last' = call
               /\ UNCHANGED <<Player, Vehicle, fault>>
     /\ enqueued' = AfterRead(enqueued, code)
     /\ UNCHANGED <<bExtraLog, Server, WorldPort, TimeOut, Settings, StartPositionIndex, sceneN>>

\* what Set(carla_image &, const FCapturedImage &) writes to the log: both
\* of its UE_LOG lines are inside #ifdef CARLA_SERVER_EXTRA_LOG
SetImageLog(uImage) ==
  IF ~bExtraLog THEN <<>>
  ELSE IF uImage.BitMapNum > 0 THEN <<"Sending image">>
  ELSE <<"Sending empty image">>

\* the player record of carla_measurements
PlayerMeasurements(PlayerState) ==
  [transform |-> SetTransform(PlayerState.Transform),
   acceleration |-> SetVector3d(PlayerState.Acceleration),
   forward_speed |-> PlayerState.ForwardSpeed,
   collision_vehicles |-> PlayerState.CollisionIntensityCars,
   collision_pedestrians |-> PlayerState.CollisionIntensityPedestrians,
   collision_other |-> PlayerState.CollisionIntensityOther,
   intersection_otherlane |-> PlayerState.OtherLaneIntersectionFactor,
   intersection_offroad |-> PlayerState.OffRoadIntersectionFactor]

\* variant: the agent count is the number of list entries the array was
\* reserved for, null entries included
Measurements_CountsPopulation(GameState, PlayerState, bSendNonPlayerAgentsInfo) ==
  LET Agents == IF bSendNonPlayerAgentsInfo
                  THEN GetAgentInfo(GameState, <<>>)
                  ELSE <<>>
      NumberOfAgents ==
        IF bSendNonPlayerAgentsInfo
          THEN (IF GameState.WalkerSpawner.present
                  THEN Len(GameState.WalkerSpawner.WhiteList)
                       + Len(GameState.WalkerSpawner.BlackList)
                  ELSE 0)
               + (IF GameState.VehicleSpawner.present
                    THEN Len(GameState.VehicleSpawner.Vehicles)
                    ELSE 0)
          ELSE 0
      NumberOfImages == Len(PlayerState.Images)
      images == [i \in 1 .. NumberOfImages |->
                   SetImage(ZeroImage, PlayerState.Images[i])]
  IN [platform_timestamp |-> PlayerState.PlatformTimeStamp,
      game_timestamp |-> PlayerState.GameTimeStamp,
      player_measurements |-> PlayerMeasurements(PlayerState),
      non_player_agents |-> Agents,
      non_player_agents_null |-> ~(NumberOfAgents > 0),
      number_of_non_player_agents |-> NumberOfAgents,
      images |-> images,
      images_null |-> ~(NumberOfImages > 0),
      NumberOfImages |-> NumberOfImages]

\* what SendMeasurements hands to carla_write_measurements
Measurements(GameState, PlayerState, bSendNonPlayerAgentsInfo) ==
  LET Agents == IF bSendNonPlayerAgentsInfo
                  THEN GetAgentInfo(GameState, <<>>)
                  ELSE <<>>
      NumberOfImages == Len(PlayerState.Images)
      images == [i \in 1 .. NumberOfImages |->
                   SetImage(ZeroImage, PlayerState.Images[i])]
  IN [platform_timestamp |-> PlayerState.PlatformTimeStamp,
      game_timestamp |-> PlayerState.GameTimeStamp,
      player_measurements |-> PlayerMeasurements(PlayerState),
      non_player_agents |-> Agents,
      non_player_agents_null |-> ~(Len(Agents) > 0),
      number_of_non_player_agents |-> Len(Agents),
      images |-> images,
      images_null |-> ~(NumberOfImages > 0),
      NumberOfImages |-> NumberOfImages]

\* variant: a player state without images is refused before the write
SendMeasurements_NeedsImages(GameState, PlayerState, bSendNonPlayerAgentsInfo, code) ==
  /\ Callable
  /\ last' = IF Len(PlayerState.Images) = 0
       THEN [NoCall EXCEPT
               !.op = "SendMeasurements",
               !.bSendNonPlayerAgentsInfo = bSendNonPlayerAgentsInfo,
               !.GameState = GameState, !.PlayerState = PlayerState,
               !.code = code, !.result = Error]
       ELSE [NoCall EXCEPT
               !.op = "SendMeasurements",
               !.bSendNonPlayerAgentsInfo = bSendNonPlayerAgentsInfo,
               !.GameState = GameState, !.PlayerState = PlayerState,
               !.calls = <<UntimedCall("carla_write_measurements")>>,
               !.code = code, !.result = ParseErrorCode(code),
               !.imageLog = [i \in 1 .. Len(PlayerState.Images) |->
                      SetImageLog(PlayerState.Images[i])],
       !.meas = Measurements(GameState, PlayerState, bSendNonPlayerAgentsInfo)]
  /\ UNCHANGED <<bExtraLog, enqueued, Server, WorldPort, TimeOut, Player, Vehicle, Settings,
                 StartPositionIndex, fault, sceneN>>

\* CarlaServer::SendMeasurements(GameState, PlayerState, bSendNonPlayerAgentsInfo)
SendMeasurements(GameState, PlayerState, bSendNonPlayerAgentsInfo, code) ==
  /\ Callable
  /\ last' = [NoCall EXCEPT
       !.op = "SendMeasurements",
       !.bSendNonPlayerAgentsInfo = bSendNonPlayerAgentsInfo,
       !.GameState = GameState, !.PlayerState = PlayerState,
       !.calls = <<UntimedCall("carla_write_measurements")>>,
       !.code = code, !.result = ParseErrorCode(code),
       !.imageLog = [i \in 1 .. Len(PlayerState.Images) |->
                      SetImageLog(PlayerState.Images[i])],
       !.meas = Measurements(GameState, PlayerState, bSendNonPlayerAgentsInfo)]
  /\ UNCHANGED <<bExtraLog, enqueued, Server, WorldPort, TimeOut, Player, Vehicle, Settings,
                 StartPositionIndex, fault, sceneN>>

\* variant: the handle is handed to carla_free_server twice
Destroy_FreesTwice ==
  /\ Callable
  /\ Server' = "freed"
  /\ last' = [NoCall EXCEPT !.op = "~CarlaServer",
                            !.calls = <<UntimedCall("carla_free_server"),
                                        UntimedCall("carla_free_server")>>]
  /\ UNCHANGED <<bExtraLog, enqueued, WorldPort, TimeOut, Player, Vehicle, Settings,
                 StartPositionIndex, fault, sceneN>>

\* CarlaServer::~CarlaServer()
Destroy ==
  /\ Callable
  /\ Server' = "freed"
  /\ last' = [NoCall EXCEPT !.op = "~CarlaServer",
                            !.calls = <<UntimedCall("carla_free_server")>>]
  /\ UNCHANGED <<bExtraLog, enqueued, WorldPort, TimeOut, Player, Vehicle, Settings,
                 StartPositionIndex, fault, sceneN>>

\* ---------------------------------------------------------------------------
\* The session: any operation may be called at any time
\* ---------------------------------------------------------------------------
\* the simulation states a tick of the session is taken in
TickGameStates ==
  { [WalkerSpawner |-> NoWalkerSpawner, VehicleSpawner |-> NoVehicleSpawner],
    [WalkerSpawner |-> WalkerSpawner(<<2, nullptr>>, <<3>>),
     VehicleSpawner |-> VehicleSpawner(<<nullptr, 5>>)] }

TickPlayerStates ==
  { PlayerStateAt(1, <<>>),
    PlayerStateAt(2, << CHOOSE im \in CapturedImages : im.BitMapNum = 2,
                        CHOOSE im \in CapturedImages : im.BitMapNum = 0 >>) }

\* the start spots of a level without any and of a level with MaxSpots
TickStartSpots == {StartSpots(n) : n \in {0, MaxSpots}}

Next ==
  \/ \E code \in Codes : Connect(code)
  \/ \E b \in BOOLEAN, code \in Codes, values \in IniRequests :
       ReadNewEpisode(b, code, values)
  \/ \E AvailableStartSpots \in TickStartSpots, b \in BOOLEAN, code \in Codes :
       SendSceneDescription(AvailableStartSpots, b, code)
  \/ \E b \in BOOLEAN, code \in Codes, values \in 0 .. MaxIndex :
       ReadEpisodeStart(b, code, values)
  \/ \E b \in BOOLEAN, code \in Codes : SendEpisodeReady(b, code)
  \/ \E b \in BOOLEAN, code \in Codes, values \in Controls :
       ReadControl(b, code, values)
  \/ \E gs \in TickGameStates, ps \in TickPlayerStates, b \in BOOLEAN, code \in Codes :
       SendMeasurements(gs, ps, b, code)
  \/ Destroy

Spec == Init /\ [][Next]_vars

\* ---------------------------------------------------------------------------
\* Snapshots over every population of the two spawners
\* ---------------------------------------------------------------------------
WalkerSpawners ==
  {NoWalkerSpawner} \cup
  { WalkerSpawner(white, black) :
      white \in SeqsUpTo({nullptr, 1, 2}, MaxActors),
      black \in SeqsUpTo({nullptr, 3}, MaxActors - 1) }

VehicleSpawners ==
  {NoVehicleSpawner} \cup
  { VehicleSpawner(vehicles) : vehicles \in SeqsUpTo({nullptr, 4, 5}, MaxActors) }

GameStates == [WalkerSpawner : WalkerSpawners, VehicleSpawner : VehicleSpawners]

InitAgents ==
  /\ Init
  /\ TimeOut = U32(0, 1000)
  /\ Player.possessing

\* the first tick of a session, taken in any of the game states
NextAgents ==
  /\ last.op = "none"
  /\ \E gs \in GameStates, ps \in TickPlayerStates, b \in BOOLEAN, code \in Codes :
       SendMeasurements(gs, ps, b, code)

SpecAgents == InitAgents /\ [][NextAgents]_vars

\* ---------------------------------------------------------------------------
\* Reads against a transport whose inbound data is known
\* ---------------------------------------------------------------------------
ReadOps == {"ReadNewEpisode", "ReadEpisodeStart", "ReadControl"}

\* the client sends its next message while none is waiting
ClientSends ==
  /\ Callable
  /\ enqueued = "no"
  /\ enqueued' = "yes"
  /\ last' = [NoCall EXCEPT !.op = "client"]
  /\ UNCHANGED <<bExtraLog, Server, WorldPort, TimeOut, Player, Vehicle, Settings,
                 StartPositionIndex, fault, sceneN>>

InitReads ==
  /\ InitEngine
  /\ bExtraLog = FALSE
  /\ enqueued \in {"yes", "no"}

NextReads ==
  \/ \E b \in BOOLEAN, values \in IniRequests :
       \E code \in TransportRead(enqueued, GetTimeOut(TimeOut, b)) :
         ReadNewEpisode(b, code, values)
  \/ \E b \in BOOLEAN, values \in 0 .. MaxIndex :
       \E code \in TransportRead(enqueued, GetTimeOut(TimeOut, b)) :
         ReadEpisodeStart(b, code, values)
  \/ \E b \in BOOLEAN, values \in Controls :
       \E code \in TransportRead(enqueued, GetTimeOut(TimeOut, b)) :
         ReadControl(b, code, values)
  \/ ClientSends

SpecReads == InitReads /\ [][NextReads]_vars

\* ---------------------------------------------------------------------------
\* Scene descriptions over every list of start spots
\* ---------------------------------------------------------------------------
SpotTransforms == {SpotTransform(i) : i \in 1 .. 2}

\* every list of up to MaxSpots start spots
SpotLists == SeqsUpTo(SpotTransforms, MaxSpots)

NextScene ==
  \E AvailableStartSpots \in SpotLists,
     b \in BOOLEAN, code \in Codes :
    SendSceneDescription(AvailableStartSpots, b, code)

SpecScene == Init /\ [][NextScene]_vars

\* ---------------------------------------------------------------------------
\* Snapshots over every list of captured images, in both builds
\* ---------------------------------------------------------------------------
InitImages ==
  /\ InitEngine
  /\ TimeOut = U32(0, 1000)
  /\ Player.possessing
  /\ bExtraLog \in BOOLEAN
  /\ enqueued = "unknown"

\* the player state of one tick with every list of up to MaxImages images
ImagePlayerStates ==
  {PlayerStateAt(1, Images) : Images \in SeqsUpTo(CapturedImages, MaxImages)}

NextImages ==
  \E gs \in TickGameStates, ps \in ImagePlayerStates,
     b \in BOOLEAN, code \in Codes :
    SendMeasurements(gs, ps, b, code)

SpecImages == InitImages /\ [][NextImages]_vars

\* ---------------------------------------------------------------------------
\* Properties
\* ---------------------------------------------------------------------------
ProtocolOps ==
  {"Connect", "ReadNewEpisode", "SendSceneDescription", "ReadEpisodeStart",
   "SendEpisodeReady", "ReadControl", "SendMeasurements"}

FlagOps ==
  {"ReadNewEpisode", "SendSceneDescription", "ReadEpisodeStart",
   "SendEpisodeReady", "ReadControl"}

\* the latest invocation came back to its caller
Returned == last.op \in ProtocolOps /\ fault = "none"

\* C1 as stated: a ReadEpisodeStart issued while no SendSceneDescription has
\* returned Success on the session is rejected, it performs no transport
\* read and yields no start index.
C1_OutOfOrderRejected ==
  (last.op = "ReadEpisodeStart" /\ sceneN = NoScene) =>
    (Len(last.calls) = 0 /\ last.result # Success)

\* C1 amended: the engine keeps no handshake state; every ReadEpisodeStart,
\* also one issued before any SendSceneDescription returned Success,
\* performs exactly one carla_read_episode_start and yields the start index
\* exactly when that read reports success.
C1_ReadEpisodeStartUnordered ==
  [][ last'.op = "ReadEpisodeStart" =>
        /\ Len(last'.calls) = 1
        /\ last'.calls[1].fn = "carla_read_episode_start"
        /\ IF last'.code = CARLA_SERVER_SUCCESS
             THEN last'.result = Success /\ StartPositionIndex' = last'.index
             ELSE last'.result # Success /\ StartPositionIndex' = StartPositionIndex
    ]_vars

C1_Witness ==
  /\ last.op = "ReadEpisodeStart"
  /\ sceneN = NoScene
  /\ last.result = Success
  /\ last.index = 2
  /\ StartPositionIndex = 2

\* C2: every protocol operation that returns, returns one of Success,
\* TryAgain, Error, and the result is the image of the transport's code:
\* success code -> Success, try-again code -> TryAgain, any other -> Error.
C2_ResultIsImageOfCode ==
  Returned =>
    /\ last.result \in {Success, TryAgain, Error}
    /\ (last.code = CARLA_SERVER_SUCCESS) <=> (last.result = Success)
    /\ (last.code = CARLA_SERVER_TRY_AGAIN) <=> (last.result = TryAgain)
    /\ (last.code \notin {CARLA_SERVER_SUCCESS, CARLA_SERVER_TRY_AGAIN})
         <=> (last.result = Error)

C2_Witness ==
  /\ last.op = "SendMeasurements"
  /\ last.code = CARLA_SERVER_TRY_AGAIN
  /\ last.result = TryAgain

\* C3 as stated: for the five operations with a blocking flag the wait
\* passed to the transport is the session timeout when blocking and zero
\* when not, and no operation changes the session timeout.
C3_WaitIsTimeOutOrZero ==
  [][ /\ TimeOut' = TimeOut
      /\ last'.op \in FlagOps =>
           \A i \in 1 .. Len(last'.calls) :
             /\ last'.calls[i].hasWait
             /\ IF last'.bBlocking
                  THEN SameValue(last'.calls[i].wait, TimeOut)
                  ELSE IsZero(last'.calls[i].wait)
    ]_vars

\* C4 as stated: all seven operations accept a blocking flag, and every
\* transport call carries a wait that is zero unless the caller asked to
\* block.
C4_EveryOperationHasFlag ==
  last.op \in ProtocolOps =>
    /\ last.hasFlag
    /\ \A i \in 1 .. Len(last.calls) :
         /\ last.calls[i].hasWait
         /\ ~last.bBlocking => IsZero(last.calls[i].wait)

\* C4 amended: the five operations ReadNewEpisode, SendSceneDescription,
\* ReadEpisodeStart, SendEpisodeReady and ReadControl accept a blocking flag
\* and their transport call carries a wait of zero unless the caller asked
\* to block; Connect accepts no flag and always passes the session timeout;
\* SendMeasurements accepts no flag and passes no wait.
C4_FiveOperationsHaveFlag ==
  /\ last.op \in FlagOps =>
       /\ last.hasFlag
       /\ \A i \in 1 .. Len(last.calls) :
            /\ last.calls[i].hasWait
            /\ ~last.bBlocking => IsZero(last.calls[i].wait)
  /\ last.op = "Connect" =>
       /\ ~last.hasFlag
       /\ \A i \in 1 .. Len(last.calls) :
            last.calls[i].hasWait /\ SameValue(last.calls[i].wait, TimeOut)
  /\ last.op = "SendMeasurements" =>
       /\ ~last.hasFlag
       /\ \A i \in 1 .. Len(last.calls) : ~last.calls[i].hasWait

C4_Witness ==
  /\ last.op = "ReadControl"
  /\ ~last.bBlocking
  /\ ~IsZero(TimeOut)
  /\ IsZero(last.calls[1].wait)

\* C5: a non-blocking ReadControl that returns TryAgain leaves the
\* controller's command state (autopilot flag and the five vehicle inputs)
\* as it was and does not end the tick loop: the process runs on and the
\* operations, SendMeasurements and the next ReadControl among them, stay
\* callable.
C5_TryAgainLeavesController ==
  [][ (last'.op = "ReadControl" /\ ~last'.bBlocking /\ last'.result = TryAgain) =>
        /\ Player' = Player
        /\ Vehicle' = Vehicle
        /\ Callable'
    ]_vars

C5_Witness ==
  /\ last.op = "ReadControl"
  /\ ~last.bBlocking
  /\ last.result = TryAgain
  /\ Player.bAutopilot
  /\ Vehicle # InitialVehicle

\* C6: a manual command (Success, autopilot false) needs a possessed
\* vehicle: without one the call ends in a fatal fault and returns nothing,
\* in particular not Error; with one all five inputs take the command's
\* values; and whatever ReadControl does, the five inputs afterwards are
\* either all the command's or all as before.
C6_ManualNeedsVehicleAllOrNone ==
  [][ last'.op = "ReadControl" =>
        LET manual == last'.code = CARLA_SERVER_SUCCESS /\ ~last'.control.autopilot
            commanded ==
              /\ Vehicle'.SteeringInput = last'.control.steer
              /\ Vehicle'.ThrottleInput = last'.control.throttle
              /\ Vehicle'.BrakeInput = last'.control.brake
              /\ Vehicle'.HandbrakeInput = last'.control.hand_brake
              /\ Vehicle'.Reverse = last'.control.reverse
        IN /\ (manual /\ ~Player.possessing) =>
                (fault' \in FaultKinds /\ last'.result = NoReturn /\ Vehicle' = Vehicle)
           /\ (manual /\ Player.possessing) =>
                (fault' = "none" /\ last'.result = Success /\ commanded)
           /\ ~manual => fault' = "none"
           /\ commanded \/ Vehicle' = Vehicle
    ]_vars

C6_Witness ==
  /\ last.op = "ReadControl"
  /\ last.code = CARLA_SERVER_SUCCESS
  /\ ~last.control.autopilot
  /\ ~Player.possessing
  /\ fault \in FaultKinds
  /\ last.result = NoReturn

\* C7: a successful ReadControl whose command has autopilot true switches
\* the controller's autopilot on, applies none of the command's five manual
\* values to the vehicle, and needs no possessed vehicle.
C7_AutopilotCommand ==
  [][ (last'.op = "ReadControl" /\ last'.code = CARLA_SERVER_SUCCESS
         /\ last'.control.autopilot) =>
        /\ Player'.bAutopilot
        /\ Player'.possessing = Player.possessing
        /\ Vehicle' = Vehicle
        /\ fault' = "none"
        /\ last'.result = Success
    ]_vars

C7_Witness ==
  /\ last.op = "ReadControl"
  /\ last.result = Success
  /\ last.control.autopilot
  /\ ~Player.possessing
  /\ Player.bAutopilot
  /\ Vehicle.ThrottleInput # last.control.throttle

\* C8: no retry inside the engine: every invocation of a protocol operation
\* makes exactly one transport call and hands that call's outcome, TryAgain
\* included, back to the caller; SendMeasurements makes one
\* carla_write_measurements whose argument already holds the player data,
\* the agents and the images.
C8_OneTransportCall ==
  last.op \in ProtocolOps =>
    /\ Len(last.calls) = 1
    /\ fault = "none" =>
         /\ (last.code = CARLA_SERVER_TRY_AGAIN) => (last.result = TryAgain)
         /\ (last.code = CARLA_SERVER_SUCCESS) => (last.result = Success)
    /\ last.op = "SendMeasurements" =>
         /\ last.calls[1].fn = "carla_write_measurements"
         /\ last.meas.game_timestamp = last.PlayerState.GameTimeStamp
         /\ last.meas.platform_timestamp = last.PlayerState.PlatformTimeStamp
         /\ last.meas.player_measurements.forward_speed = last.PlayerState.ForwardSpeed
         /\ last.meas.NumberOfImages = Len(last.PlayerState.Images)
         /\ Len(last.meas.images) = Len(last.PlayerState.Images)
         /\ last.meas.number_of_non_player_agents = Len(last.meas.non_player_agents)
         /\ last.meas.number_of_non_player_agents =
              IF last.bSendNonPlayerAgentsInfo
                THEN LET Count(Actors) ==
                           Cardinality({i \in 1 .. Len(Actors) : Actors[i] # nullptr})
                     IN Count(last.GameState.WalkerSpawner.WhiteList)
                        + Count(last.GameState.WalkerSpawner.BlackList)
                        + Count(last.GameState.VehicleSpawner.Vehicles)
                ELSE 0

C8_Witness ==
  /\ last.op = "ReadControl"
  /\ last.bBlocking
  /\ last.result = TryAgain
  /\ Len(last.calls) = 1

\* C9: with non-player agent reporting enabled the agent list holds the
\* non-null walkers of the white list, then those of the black list, then
\* the non-null vehicles, each list in its own order, walkers tagged
\* pedestrian and vehicles tagged vehicle.
C9_AgentOrder ==
  (last.op = "SendMeasurements" /\ last.bSendNonPlayerAgentsInfo) =>
    LET NonNull(Actors) == SelectSeq(Actors, LAMBDA a : a # nullptr)
        W == NonNull(last.GameState.WalkerSpawner.WhiteList)
        B == NonNull(last.GameState.WalkerSpawner.BlackList)
        V == NonNull(last.GameState.VehicleSpawner.Vehicles)
        agents == last.meas.non_player_agents
    IN /\ Len(agents) = Len(W) + Len(B) + Len(V)
       /\ \A i \in 1 .. Len(W) :
            /\ agents[i].type = CARLA_SERVER_AGENT_PEDESTRIAN
            /\ agents[i].id = GetTypeHash(W[i])
       /\ \A i \in 1 .. Len(B) :
            /\ agents[Len(W) + i].type = CARLA_SERVER_AGENT_PEDESTRIAN
            /\ agents[Len(W) + i].id = GetTypeHash(B[i])
       /\ \A i \in 1 .. Len(V) :
            /\ agents[Len(W) + Len(B) + i].type = CARLA_SERVER_AGENT_VEHICLE
            /\ agents[Len(W) + Len(B) + i].id = GetTypeHash(V[i])

C9_Witness ==
  /\ last.op = "SendMeasurements"
  /\ last.bSendNonPlayerAgentsInfo
  /\ last.GameState.WalkerSpawner.WhiteList = <<2>>
  /\ last.GameState.WalkerSpawner.BlackList = <<3>>
  /\ last.GameState.VehicleSpawner.Vehicles = <<4>>
  /\ Len(last.meas.non_player_agents) = 3
  /\ [i \in 1 .. 3 |-> last.meas.non_player_agents[i].type] =
       <<CARLA_SERVER_AGENT_PEDESTRIAN, CARLA_SERVER_AGENT_PEDESTRIAN,
         CARLA_SERVER_AGENT_VEHICLE>>
  /\ [i \in 1 .. 3 |-> last.meas.non_player_agents[i].id] =
       <<GetTypeHash(2), GetTypeHash(3), GetTypeHash(4)>>

\* C10: when ReadEpisodeStart returns Success the start index handed to the
\* caller is the index the client selected, whatever the index and however
\* many spawn transforms were sent.
C10_StartIndexIsReply ==
  (last.op = "ReadEpisodeStart" /\ last.result = Success) =>
    StartPositionIndex = last.index

C10_Witness ==
  /\ last.op = "ReadEpisodeStart"
  /\ last.result = Success
  /\ sceneN = MaxSpots
  /\ last.index = 1
  /\ StartPositionIndex = 1

\* C11 as stated: the start index yielded by a successful ReadEpisodeStart
\* is below the number of spawn transforms sent by the latest successful
\* SendSceneDescription, also when that number is 0.
C11_StartIndexBelowSent ==
  (last.op = "ReadEpisodeStart" /\ last.result = Success /\ sceneN # NoScene) =>
    StartPositionIndex < sceneN

\* C11 amended: the engine does not compare the client's index with the
\* number of spawn transforms sent: a reply that is no index into the
\* sequence sent (always the case when 0 were sent) is still returned with
\* Success and handed to the caller as it is.
C11_StartIndexUnchecked ==
  (last.op = "ReadEpisodeStart" /\ last.code = CARLA_SERVER_SUCCESS
     /\ sceneN # NoScene /\ last.index >= sceneN) =>
    /\ last.result = Success
    /\ StartPositionIndex = last.index
    /\ StartPositionIndex >= sceneN

C11_Witness ==
  /\ last.op = "ReadEpisodeStart"
  /\ last.result = Success
  /\ sceneN = MaxSpots
  /\ last.index = MaxSpots
  /\ StartPositionIndex = MaxSpots

\* C12: a snapshot of a player state with zero captured images carries an
\* empty image sequence (count 0, no image array) and is no error:
\* SendMeasurements still makes its one write and returns Success whenever
\* that write succeeds.
C12_NoImagesIsNoError ==
  (last.op = "SendMeasurements" /\ Len(last.PlayerState.Images) = 0) =>
    /\ last.meas.NumberOfImages = 0
    /\ last.meas.images = <<>>
    /\ last.meas.images_null
    /\ Len(last.calls) = 1
    /\ last.calls[1].fn = "carla_write_measurements"
    /\ (last.code = CARLA_SERVER_SUCCESS) <=> (last.result = Success)

C12_Witness ==
  /\ last.op = "SendMeasurements"
  /\ Len(last.PlayerState.Images) = 0
  /\ last.meas.NumberOfImages = 0
  /\ last.meas.images_null
  /\ last.result = Success

\* the calls of the latest invocation that free the transport handle
FreeCalls == {i \in 1 .. Len(last.calls) : last.calls[i].fn = "carla_free_server"}

\* C13: the transport handle exists from construction on, no protocol
\* operation frees it or makes another one whatever its outcome, and the
\* destructor frees it exactly once; once freed it is never freed again.
C13_HandleFreedOnce ==
  [][ /\ last'.op \in ProtocolOps =>
           /\ Server' = "live" /\ Server = "live"
           /\ \A i \in 1 .. Len(last'.calls) :
                last'.calls[i].fn \notin {"carla_free_server", "carla_make_server"}
      /\ last'.op = "~CarlaServer" =>
           /\ Server = "live" /\ Server' = "freed"
           /\ Cardinality(FreeCalls') = 1
           /\ Len(last'.calls) = 1
      /\ Server = "freed" => UNCHANGED vars
      /\ Server' # Server => last'.op = "~CarlaServer"
    ]_vars

C13_Witness ==
  /\ Server = "freed"
  /\ last.op = "~CarlaServer"
  /\ Cardinality(FreeCalls) = 1
  /\ sceneN # NoScene
  /\ Settings # <<"d">>

\* C14: every SendEpisodeReady, blocking or not, first or repeated, writes
\* an EpisodeReady record whose ready flag is true, so the records of two
\* calls are the same.
C14_ReadyAlwaysTrue ==
  [][ last'.op = "SendEpisodeReady" =>
        /\ last'.ready = TRUE
        /\ Len(last'.calls) = 1
        /\ last'.calls[1].fn = "carla_write_episode_ready"
        /\ last.op = "SendEpisodeReady" => last'.ready = last.ready
    ]_vars

C14_Witness ==
  /\ last.op = "SendEpisodeReady"
  /\ ~last.bBlocking
  /\ last.result = TryAgain
  /\ last.ready

\* C15: a read operation called with blocking = false while the transport
\* holds no client data returns TryAgain after one call with a wait of zero;
\* and a read operation that does not return Success produces no output:
\* the settings, the caller's start index and the controller stay as they
\* were.
C15_ReadsWithoutData ==
  [][ last'.op \in ReadOps =>
        /\ (~last'.bBlocking /\ enqueued = "no") =>
             /\ last'.result = TryAgain
             /\ Len(last'.calls) = 1
             /\ IsZero(last'.calls[1].wait)
        /\ last'.result \in {TryAgain, Error} =>
             /\ Settings' = Settings
             /\ StartPositionIndex' = StartPositionIndex
             /\ Player' = Player
             /\ Vehicle' = Vehicle
    ]_vars

C15_Witness ==
  /\ last.op = "ReadEpisodeStart"
  /\ ~last.bBlocking
  /\ enqueued = "no"
  /\ last.result = TryAgain
  /\ StartPositionIndex = 2
  /\ Settings # <<"d">>

\* C16: SendSceneDescription called with N start spots hands the transport,
\* in its one write, a record whose count is N and whose i-th transform is
\* the conversion of the i-th start spot, for every N from 0 on; the record
\* is made from this call's argument alone and no field of the engine
\* keeps it after the call.
C16_SceneIsSpotsInOrder ==
  [][ last'.op = "SendSceneDescription" =>
        LET N == Len(last'.AvailableStartSpots)
        IN /\ last'.number_of_player_start_spots = N
           /\ Len(last'.scene) = N
           /\ \A i \in 1 .. N :
                last'.scene[i] = SetTransform(last'.AvailableStartSpots[i])
           /\ Len(last'.calls) = 1
           /\ last'.calls[1].fn = "carla_write_scene_description"
           /\ UNCHANGED <<Server, WorldPort, TimeOut, Player, Vehicle, Settings,
                          StartPositionIndex>>
    ]_vars

C16_Witness ==
  /\ last.op = "SendSceneDescription"
  /\ last.result = Success
  /\ last.number_of_player_start_spots = MaxSpots
  /\ last.scene[1] # last.scene[2]
  /\ last.scene[1].orientation # last.scene[MaxSpots].orientation

\* C17: the agent count of a snapshot is the number of non-null actors
\* enumerated: 0, with a null agent pointer, when non-player reporting is
\* disabled or both spawners are absent; with reporting enabled the null
\* entries of the walker and vehicle lists are not counted, so the count is
\* at most the number of list entries; and the agent pointer is null exactly
\* when the count is 0.
C17_AgentCount ==
  last.op = "SendMeasurements" =>
    LET NonNull(Actors) == Cardinality({i \in DOMAIN Actors : Actors[i] # nullptr})
        gs == last.GameState
        walkers == IF gs.WalkerSpawner.present
                     THEN NonNull(gs.WalkerSpawner.WhiteList)
                          + NonNull(gs.WalkerSpawner.BlackList)
                     ELSE 0
        vehicles == IF gs.VehicleSpawner.present
                      THEN NonNull(gs.VehicleSpawner.Vehicles)
                      ELSE 0
        entries == Len(gs.WalkerSpawner.WhiteList) + Len(gs.WalkerSpawner.BlackList)
                   + Len(gs.VehicleSpawner.Vehicles)
        count == last.meas.number_of_non_player_agents
    IN /\ count = IF last.bSendNonPlayerAgentsInfo THEN walkers + vehicles ELSE 0
       /\ count = Len(last.meas.non_player_agents)
       /\ count <= entries
       /\ last.meas.non_player_agents_null <=> count = 0
       /\ (~gs.WalkerSpawner.present /\ ~gs.VehicleSpawner.present) => count = 0

C17_Witness ==
  /\ last.op = "SendMeasurements"
  /\ last.bSendNonPlayerAgentsInfo
  /\ last.GameState.WalkerSpawner.WhiteList = <<nullptr, 1>>
  /\ last.GameState.WalkerSpawner.BlackList = <<nullptr>>
  /\ last.GameState.VehicleSpawner.Vehicles = <<4, nullptr>>
  /\ last.meas.number_of_non_player_agents = 2
  /\ ~last.meas.non_player_agents_null

\* C18 as stated: a captured image whose pixel buffer is empty is sent as a
\* zeroed wire-image in its position, the snapshot is written with as many
\* images as were captured, and a diagnostic is emitted for the image.
C18_EmptyImageDiagnosed ==
  last.op = "SendMeasurements" =>
    /\ last.meas.NumberOfImages = Len(last.PlayerState.Images)
    /\ Len(last.calls) = 1
    /\ \A i \in 1 .. Len(last.PlayerState.Images) :
         last.PlayerState.Images[i].BitMapNum = 0 =>
           /\ last.meas.images[i] = ZeroImage
           /\ last.imageLog[i] = <<"Sending empty image">>

\* C18, amended: a captured image whose pixel buffer is empty is sent as a
\* zeroed wire-image in its position, the snapshot is written, in one
\* call, with as many images as were captured, and the diagnostic is
\* emitted exactly in a build that defines CARLA_SERVER_EXTRA_LOG.
C18_EmptyImageSentZeroed ==
  last.op = "SendMeasurements" =>
    /\ last.meas.NumberOfImages = Len(last.PlayerState.Images)
    /\ Len(last.meas.images) = Len(last.PlayerState.Images)
    /\ Len(last.calls) = 1
    /\ last.calls[1].fn = "carla_write_measurements"
    /\ \A i \in 1 .. Len(last.PlayerState.Images) :
         last.PlayerState.Images[i].BitMapNum = 0 =>
           /\ last.meas.images[i] = ZeroImage
           /\ last.imageLog[i] =
                IF bExtraLog THEN <<"Sending empty image">> ELSE <<>>

C18_Witness ==
  /\ last.op = "SendMeasurements"
  /\ last.result = Success
  /\ ~bExtraLog
  /\ Len(last.PlayerState.Images) = 2
  /\ last.PlayerState.Images[1].BitMapNum > 0
  /\ last.PlayerState.Images[2].BitMapNum = 0
  /\ last.PlayerState.Images[2].SizeX > 0
  /\ last.meas.images[1].width > 0
  /\ last.meas.images[2] = ZeroImage
  /\ last.imageLog[2] = <<>>

\* C19: after every ReadControl whose transport read succeeded the
\* controller's autopilot flag is the command's autopilot field, and it is
\* set before the possession check: when a manual command arrives while no
\* vehicle is possessed the flag is already off when the fatal fault is
\* raised, so a controller that was on autopilot is not left as it was.
C19_AutopilotSetBeforeCheck ==
  [][ (last'.op = "ReadControl" /\ last'.code = CARLA_SERVER_SUCCESS) =>
        /\ Player'.bAutopilot = last'.control.autopilot
        /\ fault' \in FaultKinds =>
             /\ ~last'.control.autopilot
             /\ ~Player.possessing
             /\ ~Player'.bAutopilot
             /\ Player.bAutopilot => Player' # Player
    ]_vars

C19_Witness ==
  /\ last.op = "ReadControl"
  /\ last.code = CARLA_SERVER_SUCCESS
  /\ ~last.control.autopilot
  /\ fault \in FaultKinds
  /\ ~Player.possessing
  /\ ~Player.bAutopilot

\* C20 as stated: the wait handed to the transport by a blocking call is the
\* session's configured timeout, for every unsigned 32-bit timeout, and is
\* never negative: the signed value GetTimeOut returns denotes the same
\* number as the unsigned timeout, also from 2^31 on.
C20_BlockingWaitPreserved ==
  (last.op \in FlagOps /\ last.bBlocking) =>
    \A i \in 1 .. Len(last.calls) :
      /\ ~IsNegative(last.calls[i].wait)
      /\ SameValue(last.calls[i].wait, TimeOut)
      /\ SameValue(GetTimeOut(TimeOut, TRUE), TimeOut)

====
